---- MODULE Spec2Model ----
(***************************************************************************)
(* Model of cfg() in 2019/lib/intcode_to_dot.py: the decoding loop, the    *)
(* head marking, the partition of the instruction stream into basic        *)
(* blocks and the construction of the edge list.                          *)
(*                                                                         *)
(* Python objects shared between ops, addr_to_op and the blocks are        *)
(* modelled by their index in ops (1-based).  Block ids and edge           *)
(* endpoints keep Python's 0-based numbering; the block with id i is       *)
(* blocks[i + 1].  Attributes that the code sets only on some objects      *)
(* (jump_addr, block_id) are partial functions over op indices.            *)
(***************************************************************************)
EXTENDS Integers, Sequences, FiniteSets

\* Bounds of the model.
MaxOps == 3
MaxJumpArg == 4

\* Line 152: J_UNCONDITIONAL, J_TRUE, J_FALSE = range(3)
J_UNCONDITIONAL == 0
J_TRUE == 1
J_FALSE == 2

ARGMODE_IMMEDIATE == "IMMEDIATE"
ARGMODE_POSITIONAL == "POSITIONAL"

VARIABLES program, vm_pc, ops, addr_to_op, jump_addr, block_id,
          blocks, edges, phase, error

vars == <<program, vm_pc, ops, addr_to_op, jump_addr, block_id,
          blocks, edges, phase, error>>

----------------------------------------------------------------------------
(* The instruction decoder (module intcode, imported at line 15).          *)

\* What Op.fromcode can return, pc aside: a halt, an invalid opcode (length
\* 1), instructions with one and three arguments, and conditional jumps
\* whose second argument is immediate or not.
JumpArgs == (0 - 1) .. MaxJumpArg

Decoded ==
    {[type |-> "OpHlt", mnemonic |-> "hlt", length |-> 1,
      args |-> <<>>, argmodes |-> <<>>],
     [type |-> "OpInvalid", mnemonic |-> "invalid", length |-> 1,
      args |-> <<>>, argmodes |-> <<>>],
     [type |-> "Op", mnemonic |-> "out", length |-> 2,
      args |-> <<0>>, argmodes |-> <<ARGMODE_POSITIONAL>>],
     [type |-> "Op", mnemonic |-> "add", length |-> 4,
      args |-> <<0, 0, 0>>,
      argmodes |-> <<ARGMODE_POSITIONAL, ARGMODE_IMMEDIATE, ARGMODE_POSITIONAL>>]}
    \cup {[type |-> "Op", mnemonic |-> m, length |-> 3,
           args |-> <<0, t>>,
           argmodes |-> <<ARGMODE_POSITIONAL, ARGMODE_IMMEDIATE>>] :
          m \in {"jnz", "jz"}, t \in JumpArgs}
    \cup {[type |-> "Op", mnemonic |-> m, length |-> 3,
           args |-> <<0, 0>>,
           argmodes |-> <<ARGMODE_POSITIONAL, ARGMODE_POSITIONAL>>] :
          m \in {"jnz", "jz"}}

Programs == UNION {[1 .. n -> Decoded] : n \in 1 .. MaxOps}

\* Address of the k-th instruction of p: the lengths before it, summed.
RECURSIVE AddrOf(_, _)
AddrOf(p, k) == IF k <= 1 THEN 0 ELSE AddrOf(p, k - 1) + p[k - 1].length

\* len(vm.code)
CodeLen(p) == AddrOf(p, Len(p) + 1)

\* Op.fromcode(vm, pc): the instruction that starts at pc.
fromcode(p, pc) ==
    LET k == CHOOSE j \in 1 .. Len(p) : AddrOf(p, j) = pc
    IN  [pc |-> pc, type |-> p[k].type, mnemonic |-> p[k].mnemonic,
         length |-> p[k].length, args |-> p[k].args,
         argmodes |-> p[k].argmodes]

\* op.decode_arg(1) of an instruction whose second argument is immediate.
decode_arg1(op) == op.args[2]

----------------------------------------------------------------------------
(* cfg, lines 71-133.                                                       *)

\* Lines 19-20.
breaks_basic_block(op) ==
    /\ op.mnemonic \in {"jnz", "jz"}
    /\ op.argmodes[2] = ARGMODE_IMMEDIATE

\* Mutant of AddrToOpPut: invalid opcode instructions are not registered.
AddrToOpPut_SkipInvalid(m, op, k) ==
    IF op.type = "OpInvalid"
    THEN m
    ELSE [a \in DOMAIN m \cup {op.pc} |-> IF a = op.pc THEN k ELSE m[a]]

\* Line 82: addr_to_op[op.pc] = op, for the op appended at index k.
AddrToOpPut(m, op, k) ==
    [a \in DOMAIN m \cup {op.pc} |-> IF a = op.pc THEN k ELSE m[a]]

\* Mutant of Resolvable: the membership test is missing.
Resolvable_Always(a, m) == TRUE

\* Lines 94 and 126: op.jump_addr in addr_to_op.
Resolvable(a, m) == a \in DOMAIN m

Init ==
    /\ program \in Programs
    /\ vm_pc = 0
    /\ ops = <<>>
    /\ addr_to_op = <<>>
    /\ jump_addr = <<>>
    /\ block_id = <<>>
    /\ blocks = <<>>
    /\ edges = <<>>
    /\ phase = "decode"
    /\ error = "None"

\* Lines 77-83, one iteration of the loop.
Decode ==
    /\ phase = "decode"
    /\ vm_pc < CodeLen(program)
    /\ LET op == fromcode(program, vm_pc)
           obj == [pc |-> op.pc, type |-> op.type, mnemonic |-> op.mnemonic,
                   length |-> op.length, args |-> op.args,
                   argmodes |-> op.argmodes,
                   head |-> FALSE, tail |-> breaks_basic_block(op)]
       IN  /\ ops' = Append(ops, obj)
           /\ addr_to_op' = AddrToOpPut(addr_to_op, op, Len(ops) + 1)
           /\ vm_pc' = vm_pc + op.length
    /\ UNCHANGED <<program, jump_addr, block_id, blocks, edges, phase, error>>

\* Line 85, once the loop of line 77 has ended.
MarkFirst ==
    /\ phase = "decode"
    /\ ~(vm_pc < CodeLen(program))
    /\ ops' = [ops EXCEPT ![1].head = TRUE]
    /\ phase' = "fallthrough"
    /\ UNCHANGED <<program, vm_pc, addr_to_op, jump_addr, block_id, blocks,
                   edges, error>>

\* Mutant of FallthroughHeads: the loop of lines 87-89 is missing.
FallthroughHeads_None(os) == os

\* Lines 87-89: the instruction after a tail is a head.
FallthroughHeads(os) ==
    [k \in 1 .. Len(os) |->
        IF k > 1 /\ os[k - 1].tail THEN [os[k] EXCEPT !.head = TRUE] ELSE os[k]]

MarkFallthrough ==
    /\ phase = "fallthrough"
    /\ ops' = FallthroughHeads(ops)
    /\ phase' = "targets"
    /\ UNCHANGED <<program, vm_pc, addr_to_op, jump_addr, block_id, blocks,
                   edges, error>>

\* Line 92 over the loop of line 91: jump_addr is set on every tail.
JumpAddrs(os) ==
    [k \in {j \in 1 .. Len(os) : os[j].tail} |-> decode_arg1(os[k])]

\* Mutant of TargetHeads: line 96 marks the tail, not its destination.
TargetHeads_MarksSource(os, m, ja) ==
    [k \in 1 .. Len(os) |->
        IF k \in DOMAIN ja /\ Resolvable(ja[k], m)
        THEN [os[k] EXCEPT !.head = TRUE] ELSE os[k]]

\* Lines 94-96 over the loop of line 91: the op at a tail's jump address is
\* a head.
TargetHeads(os, m, ja) ==
    [k \in 1 .. Len(os) |->
        IF \E j \in DOMAIN ja : Resolvable(ja[j], m) /\ m[ja[j]] = k
        THEN [os[k] EXCEPT !.head = TRUE] ELSE os[k]]

\* Line 95 raises KeyError when the key is not in the dict.
LookupFails(m, ja) ==
    \E j \in DOMAIN ja : Resolvable(ja[j], m) /\ ja[j] \notin DOMAIN m

MarkTargets ==
    /\ phase = "targets"
    /\ jump_addr' = JumpAddrs(ops)
    /\ IF LookupFails(addr_to_op, jump_addr')
       THEN /\ error' = "KeyError"
            /\ phase' = "raised"
            /\ UNCHANGED ops
       ELSE /\ ops' = TargetHeads(ops, addr_to_op, jump_addr')
            /\ phase' = "partition"
            /\ UNCHANGED error
    /\ UNCHANGED <<program, vm_pc, addr_to_op, block_id, blocks, edges>>

\* Mutant of RecordedBlockId: line 104 runs after the increment of line 111.
RecordedBlockId_AfterIncrement(cur_block_id, head) ==
    IF head THEN cur_block_id + 1 ELSE cur_block_id

\* Line 104: the block id recorded on an op is the counter's value before
\* line 111 increments it.
RecordedBlockId(cur_block_id, head) == cur_block_id

\* Lines 104-113, the body of the loop for the op at index k.  st holds the
\* locals blocks, cur_block (<<>> for None) and cur_block_id, the block_id
\* attributes set so far, and the exception raised, if any.
PartitionStep(os, k, st) ==
    LET bid == [x \in DOMAIN st.block_id \cup {k} |->
                   IF x = k THEN RecordedBlockId(st.cur_block_id, os[k].head)
                   ELSE st.block_id[x]]
    IN  IF os[k].head
        THEN [blocks |-> IF st.cur_block # <<>>
                         THEN Append(st.blocks, st.cur_block)
                         ELSE st.blocks,
              cur_block |-> <<k>>,
              cur_block_id |-> st.cur_block_id + 1,
              block_id |-> bid,
              error |-> st.error]
        ELSE IF st.cur_block = <<>>
             THEN [st EXCEPT !.block_id = bid, !.error = "AttributeError"]
             ELSE [st EXCEPT !.block_id = bid,
                             !.cur_block = Append(st.cur_block, k)]

\* Lines 103-113: the loop over ops, from index k on.
RECURSIVE PartitionLoop(_, _, _)
PartitionLoop(os, k, st) ==
    IF k > Len(os) \/ st.error # "None"
    THEN st
    ELSE PartitionLoop(os, k + 1, PartitionStep(os, k, st))

\* Mutant of PartitionFinish: lines 115-116 are missing.
PartitionFinish_NoFlush(st) == st.blocks

\* Lines 115-116.
PartitionFinish(st) ==
    IF st.cur_block # <<>> THEN Append(st.blocks, st.cur_block) ELSE st.blocks

\* Lines 98-116.
Partition ==
    /\ phase = "partition"
    /\ LET st == PartitionLoop(ops, 1,
                     [blocks |-> <<>>, cur_block |-> <<>>, cur_block_id |-> 0,
                      block_id |-> <<>>, error |-> "None"])
       IN  /\ block_id' = st.block_id
           /\ IF st.error # "None"
              THEN /\ error' = st.error
                   /\ phase' = "raised"
                   /\ UNCHANGED blocks
              ELSE /\ blocks' = PartitionFinish(st)
                   /\ phase' = "edges"
                   /\ UNCHANGED error
    /\ UNCHANGED <<program, vm_pc, ops, addr_to_op, jump_addr, edges>>

\* Mutant of IsHlt: the test of line 122 never succeeds.
IsHlt_Never(op) == FALSE

\* Line 122: type(prev_op) == OpHlt.
IsHlt(op) == op.type = "OpHlt"

\* Mutant of BlockEdges: lines 130-131 are missing, kind stays
\* J_UNCONDITIONAL.
BlockEdges_KindUnchanged(os, m, ja, bid, bs, i) ==
    LET prev == bs[i + 1]
        prev_op == prev[Len(prev)]
    IN  IF os[prev_op].type = "OpHlt"
        THEN <<>>
        ELSE (IF os[prev_op].tail /\ Resolvable(ja[prev_op], m)
              THEN <<<<i, bid[m[ja[prev_op]]], J_TRUE>>>>
              ELSE <<>>)
             \o <<<<i, i + 1, J_UNCONDITIONAL>>>>

\* Lines 119-133, the body of the loop for the pair (blocks[i], blocks[i+1])
\* in Python's numbering: the edges it appends.
BlockEdges(os, m, ja, bid, bs, i) ==
    LET prev == bs[i + 1]
        cur == bs[i + 2]
        prev_op == prev[Len(prev)]
    IN  IF IsHlt(os[prev_op])
        THEN <<>>
        ELSE IF os[prev_op].tail
             THEN (IF Resolvable(ja[prev_op], m)
                   THEN <<<<i, bid[m[ja[prev_op]]], J_TRUE>>>>
                   ELSE <<>>)
                  \o <<<<i, i + 1,
                         IF os[cur[1]].head THEN J_FALSE ELSE J_UNCONDITIONAL>>>>
             ELSE <<<<i, i + 1, J_UNCONDITIONAL>>>>

\* Lines 118-133: the loop over zip(blocks, blocks[1:]), from pair i on.
RECURSIVE EdgeLoop(_, _, _, _, _, _)
EdgeLoop(os, m, ja, bid, bs, i) ==
    IF i + 2 > Len(bs)
    THEN <<>>
    ELSE BlockEdges(os, m, ja, bid, bs, i) \o EdgeLoop(os, m, ja, bid, bs, i + 1)

BuildEdges ==
    /\ phase = "edges"
    /\ edges' = EdgeLoop(ops, addr_to_op, jump_addr, block_id, blocks, 0)
    /\ phase' = "done"
    /\ UNCHANGED <<program, vm_pc, ops, addr_to_op, jump_addr, block_id,
                   blocks, error>>

Next ==
    \/ Decode
    \/ MarkFirst
    \/ MarkFallthrough
    \/ MarkTargets
    \/ Partition
    \/ BuildEdges

Spec == Init /\ [][Next]_vars

----------------------------------------------------------------------------
(* Vocabulary of the properties, stated on the decoded instructions and on *)
(* the outputs, not on the flags and maps cfg computes along the way.      *)

Done == phase = "done"
Partitioned == phase \in {"edges", "done"}
HeadsMarked == phase \in {"partition", "edges", "done"}

NBlocks == Len(blocks)
BlockIds == 0 .. (NBlocks - 1)
Block(b) == blocks[b + 1]
FirstOp(b) == Block(b)[1]
LastOp(b) == Block(b)[Len(Block(b))]

\* A conditional jump whose jump-target argument is immediate.
IsCondJumpImm(k) ==
    /\ ops[k].mnemonic \in {"jnz", "jz"}
    /\ ops[k].argmodes[2] = ARGMODE_IMMEDIATE
JumpAddress(k) == ops[k].args[2]

\* The decoded instruction at address a, if any.
OpsAt(a) == {k \in 1 .. Len(ops) : ops[k].pc = a}
IsDecodedAddr(a) == OpsAt(a) # {}

EdgeIdx == 1 .. Len(edges)
Src(j) == edges[j][1]
Dst(j) == edges[j][2]
Kind(j) == edges[j][3]
EdgesFrom(b) == {j \in EdgeIdx : Src(j) = b}
TrueEdgesFrom(b) == {j \in EdgesFrom(b) : Kind(j) = J_TRUE}

RECURSIVE Flatten(_)
Flatten(bs) == IF bs = <<>> THEN <<>> ELSE Head(bs) \o Flatten(Tail(bs))

----------------------------------------------------------------------------
\* C1: every block B, the last one included, has a TRUE edge leaving it if
\* and only if B's last instruction is a conditional jump with an immediate
\* target whose jump address is the address of a decoded instruction.
C1_TrueEdgeIffResolvableTail ==
    Done =>
        \A b \in BlockIds :
            (TrueEdgesFrom(b) # {}) <=>
                (/\ IsCondJumpImm(LastOp(b))
                 /\ IsDecodedAddr(JumpAddress(LastOp(b))))

\* C2, as stated: from every block that is not the last and does not end in
\* a halt, exactly one edge of the list goes to the next block, FALSE if the
\* block ends in a tail and UNCONDITIONAL otherwise.
C2_ExactlyOneEdgeToNext ==
    Done =>
        \A b \in BlockIds :
            (b + 1 < NBlocks /\ ~(ops[LastOp(b)].type = "OpHlt")) =>
                LET toNext == {j \in EdgesFrom(b) : Dst(j) = b + 1}
                IN  /\ Cardinality(toNext) = 1
                    /\ \A j \in toNext :
                           Kind(j) = IF IsCondJumpImm(LastOp(b))
                                     THEN J_FALSE ELSE J_UNCONDITIONAL

\* C2, amended: from every block that is not the last and does not end in a
\* halt, exactly one edge of a kind other than TRUE goes to the next block,
\* FALSE if the block ends in a tail and UNCONDITIONAL otherwise.
C2_ExactlyOneFallthroughToNext ==
    Done =>
        \A b \in BlockIds :
            (b + 1 < NBlocks /\ ~(ops[LastOp(b)].type = "OpHlt")) =>
                LET toNext == {j \in EdgesFrom(b) :
                                  Dst(j) = b + 1 /\ Kind(j) # J_TRUE}
                IN  /\ Cardinality(toNext) = 1
                    /\ \A j \in toNext :
                           Kind(j) = IF IsCondJumpImm(LastOp(b))
                                     THEN J_FALSE ELSE J_UNCONDITIONAL

\* A block whose tail jumps to the first instruction of the next block: two
\* edges, TRUE and FALSE, go to the next block.
C2_Witness ==
    /\ Done
    /\ \E b \in BlockIds :
           /\ b + 1 < NBlocks
           /\ IsCondJumpImm(LastOp(b))
           /\ \E j \in EdgesFrom(b) : Dst(j) = b + 1 /\ Kind(j) = J_TRUE
           /\ \E j \in EdgesFrom(b) : Dst(j) = b + 1 /\ Kind(j) = J_FALSE

\* C3: the blocks, concatenated in block order, are the input instruction
\* sequence, each instruction once and in address order, and no block is
\* empty; cfg raises nothing on the way.
C3_BlocksPartitionInput ==
    /\ phase # "raised"
    /\ Partitioned =>
        /\ Len(ops) = Len(program)
        /\ \A k \in 1 .. Len(ops) :
               /\ ops[k].pc = AddrOf(program, k)
               /\ ops[k].mnemonic = program[k].mnemonic
               /\ ops[k].args = program[k].args
        /\ Flatten(blocks) = [k \in 1 .. Len(ops) |-> k]
        /\ \A b \in BlockIds : Len(Block(b)) >= 1

\* Several blocks, one of them of several instructions.
C3_Witness ==
    /\ Done
    /\ NBlocks >= 2
    /\ \E b \in BlockIds : Len(Block(b)) >= 2

C5_TwoJumpCycle ==
    (/\ Done
     /\ Len(ops) = 2
     /\ IsCondJumpImm(1) /\ JumpAddress(1) = ops[2].pc
     /\ IsCondJumpImm(2) /\ JumpAddress(2) = ops[1].pc)
        => /\ NBlocks = 2
           /\ \E j \in EdgeIdx : edges[j] = <<0, 1, J_TRUE>>
           /\ \E j \in EdgeIdx : edges[j] = <<1, 0, J_TRUE>>
           /\ \E j \in EdgeIdx : edges[j] = <<0, 1, J_FALSE>>

\* The heads that the three rules of head marking give: the first
\* instruction, the instruction after a tail, the instruction at the jump
\* address of a tail.
IsRuleHead(k) ==
    \/ k = 1
    \/ k > 1 /\ IsCondJumpImm(k - 1)
    \/ \E j \in 1 .. Len(ops) : IsCondJumpImm(j) /\ JumpAddress(j) = ops[k].pc

\* A tail whose jump address is the address of no decoded instruction.
IsUnresolvedTail(k) == IsCondJumpImm(k) /\ ~IsDecodedAddr(JumpAddress(k))

\* C6: with a tail whose jump address is the address of no decoded
\* instruction, cfg raises nothing; the heads are those of the three rules
\* and no other; the tail's block has no TRUE edge and, when another block
\* follows, exactly the FALSE edge to it; every edge of the list is either
\* the fallthrough edge of its block or the TRUE edge of a tail whose jump
\* address is decoded.
C6_UnresolvedTargetDropped ==
    /\ phase # "raised"
    /\ (Done /\ \E t \in 1 .. Len(ops) : IsUnresolvedTail(t)) =>
        /\ error = "None"
        /\ \A k \in 1 .. Len(ops) : ops[k].head <=> IsRuleHead(k)
        /\ \A b \in BlockIds :
               IsUnresolvedTail(LastOp(b)) =>
                   /\ TrueEdgesFrom(b) = {}
                   /\ b + 1 < NBlocks =>
                          /\ Cardinality(EdgesFrom(b)) = 1
                          /\ \A j \in EdgesFrom(b) :
                                 edges[j] = <<b, b + 1, J_FALSE>>
        /\ \A j \in EdgeIdx :
               \/ Dst(j) = Src(j) + 1 /\ Kind(j) # J_TRUE
               \/ /\ Kind(j) = J_TRUE
                  /\ IsCondJumpImm(LastOp(Src(j)))
                  /\ IsDecodedAddr(JumpAddress(LastOp(Src(j))))

\* A block followed by another ends in a tail whose jump address lies
\* strictly inside an instruction.
C6_Witness ==
    /\ Done
    /\ \E b \in BlockIds :
           /\ b + 1 < NBlocks
           /\ IsUnresolvedTail(LastOp(b))
           /\ JumpAddress(LastOp(b)) > 0
           /\ JumpAddress(LastOp(b)) < CodeLen(program)

\* C7: no edge of the list leaves a block whose last instruction is a halt.
C7_HaltBlockHasNoEdges ==
    Done =>
        \A b \in BlockIds :
            ops[LastOp(b)].type = "OpHlt" => EdgesFrom(b) = {}

\* A block that ends in a halt is followed by another block.
C7_Witness ==
    /\ Done
    /\ \E b \in BlockIds : b + 1 < NBlocks /\ ops[LastOp(b)].type = "OpHlt"

\* C8: after the partition pass, in every block only the first instruction
\* has head = true and only the last has tail = true.
C8_HeadFirstTailLast ==
    Partitioned =>
        \A b \in BlockIds :
            \A i \in 1 .. Len(Block(b)) :
                /\ i > 1 => ~ops[Block(b)[i]].head
                /\ i < Len(Block(b)) => ~ops[Block(b)[i]].tail

\* A jump targets an instruction that follows a non-tail, and some block
\* has several instructions.
C8_Witness ==
    /\ Done
    /\ \E k \in 2 .. Len(ops) :
           /\ ~IsCondJumpImm(k - 1)
           /\ \E j \in 1 .. Len(ops) :
                  IsCondJumpImm(j) /\ JumpAddress(j) = ops[k].pc
    /\ \E b \in BlockIds : Len(Block(b)) >= 2

\* C9: after head marking an instruction is a head exactly when one of the
\* three rules makes it one; after the partition the blocks start exactly at
\* the heads, so there are as many blocks as heads.
C9_HeadsExactlyRuleHeads ==
    /\ HeadsMarked =>
           \A k \in 1 .. Len(ops) : ops[k].head <=> IsRuleHead(k)
    /\ Partitioned =>
           /\ {FirstOp(b) : b \in BlockIds} = {k \in 1 .. Len(ops) : IsRuleHead(k)}
           /\ NBlocks = Cardinality({k \in 1 .. Len(ops) : ops[k].head})

\* Heads are marked, and one of them is a head only as a jump target.
C9_Witness ==
    /\ Partitioned
    /\ \E k \in 2 .. Len(ops) :
           /\ ops[k].head
           /\ ~IsCondJumpImm(k - 1)
    /\ \E k \in 2 .. Len(ops) : ~ops[k].head

\* C10: the endpoints of every edge are positions of the block list, and a
\* TRUE edge leads to the block whose first instruction is the instruction
\* at the jump address of the source block's last instruction.
C10_EdgeEndpointsAreBlockPositions ==
    Done =>
        \A j \in EdgeIdx :
            /\ Src(j) \in BlockIds
            /\ Dst(j) \in BlockIds
            /\ Kind(j) = J_TRUE =>
                   /\ IsCondJumpImm(LastOp(Src(j)))
                   /\ ops[FirstOp(Dst(j))].pc = JumpAddress(LastOp(Src(j)))
                   /\ block_id[FirstOp(Dst(j))] = Dst(j)

\* A TRUE edge jumps forward over a block.
C10_Witness ==
    /\ Done
    /\ \E j \in EdgeIdx : Kind(j) = J_TRUE /\ Dst(j) > Src(j) + 1

====
